---- MODULE Spec2Model ----
(***************************************************************************)
(* Model of s3prl/downstream/asr/dataset.py: the length-bucketed           *)
(* SequenceDataset, the fixed-manifest HiddenDataset and the transcript    *)
(* normalisers of both.  Strings are sequences of one-character strings.   *)
(***************************************************************************)
EXTENDS Integers, Sequences, FiniteSets, TLC

VARIABLES
  \* ---- SequenceDataset ----
  pc,           \* position in SequenceDataset.__init__ / afterwards
  table,        \* rows of the merged duration table, in file order
  trans_found,  \* whether every chapter directory has its transcript file
  trans_keys,   \* utterance keys found in the transcript files
  bucket_size,  \* constructor argument
  X,            \* file_path column after the descending sort
  X_lens,       \* length column after the descending sort
  usage_list,   \* keys present in both indexes
  selfY,        \* keys of the encoded-label map self.Y
  selfX,        \* self.X: the list of buckets
  batch_x,      \* running batch of file paths
  batch_len,    \* running batch of lengths
  i,            \* position of the scan in X (1-based)
  x,            \* the loop variable x after the last iteration
  item,         \* outcome of the last __getitem__
  \* ---- transcript normalisers ----
  transcript,   \* raw transcript text
  seq_out,      \* SequenceDataset process_trans result (or None)
  hid_out,      \* HiddenDataset process_trans result (or None)
  \* ---- HiddenDataset ----
  h_pc,         \* position in HiddenDataset.__init__ / _load_wav
  hidden_root,  \* constructor argument
  manifest,     \* utterance_text column of scripta.csv
  snapshot,     \* symbol list of the persisted dictionary, None if absent
  symbols,      \* self.symbols: symbol list of the loaded dictionary
  append_eos,   \* whether encode_line appends the end-of-sequence id
  hX,           \* self.X: wav paths
  hY,           \* self.Y: normalised transcripts
  Y_encoded,    \* self.Y_encoded
  h_index,      \* index passed to __getitem__
  loads,        \* files handed to torchaudio.load during the access
  h_result      \* outcome of the access

seq_vars == <<pc, table, trans_found, trans_keys, bucket_size, X, X_lens,
              usage_list, selfY, selfX, batch_x, batch_len, i, x, item>>
trans_vars == <<transcript, seq_out, hid_out>>
hid_vars == <<h_pc, hidden_root, manifest, snapshot, symbols, append_eos,
              hX, hY, Y_encoded, h_index, loads, h_result>>
vars == <<seq_vars, trans_vars, hid_vars>>

None == <<"None">>
NoResult == [status |-> "none", wav |-> <<>>, label |-> <<>>]

(***************************************************************************)
(* Bounds                                                                  *)
(***************************************************************************)
MaxLen == 4
MaxBucket == 3

(***************************************************************************)
(* Python string helpers                                                   *)
(***************************************************************************)
Whitespace == {" ", "\t"}

\* str.split(sep) for a one-character separator
RECURSIVE SplitOn(_, _)
SplitOn(s, sep) ==
  IF \A k \in 1..Len(s) : s[k] # sep
    THEN <<s>>
    ELSE LET k == CHOOSE k \in 1..Len(s) :
                    s[k] = sep /\ \A j \in 1..(k-1) : s[j] # sep
         IN <<SubSeq(s, 1, k-1)>> \o SplitOn(SubSeq(s, k+1, Len(s)), sep)

\* str.split() with no argument: runs of whitespace separate, no empty parts
RECURSIVE SplitWS(_)
SplitWS(s) ==
  IF s = <<>> THEN <<>>
  ELSE IF s[1] \in Whitespace THEN SplitWS(Tail(s))
  ELSE LET stops == {k \in 1..Len(s) : s[k] \in Whitespace}
           k == IF stops = {} THEN Len(s) + 1
                ELSE CHOOSE m \in stops : \A n \in stops : m <= n
       IN <<SubSeq(s, 1, k-1)>> \o SplitWS(SubSeq(s, k, Len(s)))

\* sep.join(parts)
RECURSIVE Join(_, _)
Join(sep, parts) ==
  IF parts = <<>> THEN <<>>
  ELSE IF Len(parts) = 1 THEN parts[1]
  ELSE parts[1] \o sep \o Join(sep, Tail(parts))

\* list(s): one string per character
ListChars(s) == [k \in 1..Len(s) |-> <<s[k]>>]

\* s.replace(old, new) for one-character old and new
Replace(s, old, new) == [k \in 1..Len(s) |-> IF s[k] = old THEN new ELSE s[k]]

Last(s) == s[Len(s)]

RECURSIVE Concat(_)
Concat(ss) == IF ss = <<>> THEN <<>> ELSE ss[1] \o Concat(Tail(ss))

RECURSIVE MaxOf(_)
MaxOf(s) == IF Len(s) = 1 THEN s[1]
            ELSE LET m == MaxOf(Tail(s)) IN IF s[1] > m THEN s[1] ELSE m

(***************************************************************************)
(* SequenceDataset                                                         *)
(***************************************************************************)
SAMPLE_RATE == 16000
HALF_BATCHSIZE_TIME == 2000

\* the audio files a duration table can list (speaker/chapter/utterance), in
\* file order; the fifth shares its utterance key with the first
Paths == << <<"s", "/", "c", "/", "a", ".", "f">>,
            <<"s", "/", "c", "/", "b", ".", "f">>,
            <<"s", "/", "c", "/", "c", ".", "f">>,
            <<"s", "/", "c", "/", "d", ".", "f">>,
            <<"t", "/", "c", "/", "a", ".", "f">>,
            <<"t", "/", "c", "/", "b", ".", "f">> >>

Durations == {HALF_BATCHSIZE_TIME, 2500}

\* the table of the worked example: a:500, b:2500, c:100, d:50
ExampleTable == << [file_path |-> Paths[1], length |-> 500],
                   [file_path |-> Paths[2], length |-> 2500],
                   [file_path |-> Paths[3], length |-> 100],
                   [file_path |-> Paths[4], length |-> 50] >>

_parse_x_name(p) == SplitOn(Last(SplitOn(p, "/")), ".")[1]

Keys == {_parse_x_name(Paths[k]) : k \in 1..MaxLen}

Tables ==
  {ExampleTable} \cup
  UNION {{[k \in 1..n |-> [file_path |-> Paths[k], length |-> d[k]]] :
            d \in [1..n -> Durations]} : n \in 0..MaxLen}

InitSeq ==
  /\ pc = "start"
  /\ table \in Tables
  /\ trans_found \in BOOLEAN
  /\ trans_keys \in IF trans_found THEN SUBSET Keys ELSE {{}}
  /\ bucket_size \in 1..MaxBucket
  /\ X = <<>> /\ X_lens = <<>>
  /\ usage_list = {} /\ selfY = {}
  /\ selfX = <<>> /\ batch_x = <<>> /\ batch_len = <<>>
  /\ i = 0 /\ x = None /\ item = "none"

IdleSeq ==
  /\ pc = "idle" /\ table = <<>> /\ trans_found = FALSE /\ trans_keys = {}
  /\ bucket_size = 1
  /\ X = <<>> /\ X_lens = <<>> /\ usage_list = {} /\ selfY = {}
  /\ selfX = <<>> /\ batch_x = <<>> /\ batch_len = <<>>
  /\ i = 0 /\ x = None /\ item = "none"

IdleTrans == transcript = None /\ seq_out = None /\ hid_out = None

IdleHidden ==
  /\ h_pc = "idle" /\ hidden_root = <<>> /\ manifest = <<>>
  /\ snapshot = None /\ symbols = <<>> /\ append_eos = FALSE
  /\ hX = <<>> /\ hY = <<>> /\ Y_encoded = <<>>
  /\ h_index = 0 /\ loads = <<>> /\ h_result = NoResult

\* sort_values(by=['length'], ascending=False): the orders of the rows that
\* are descending in length (ties in any order)
SortMutant(t) ==
  {p \in [1..Len(t) -> 1..Len(t)] :
     /\ \A a, b \in 1..Len(t) : a # b => p[a] # p[b]
     /\ \A a \in 1..(Len(t)-1) : t[p[a]].length <= t[p[a+1]].length}
SortOrders(t) ==
  {p \in [1..Len(t) -> 1..Len(t)] :
     /\ \A a, b \in 1..Len(t) : a # b => p[a] # p[b]
     /\ \A a \in 1..(Len(t)-1) : t[p[a]].length >= t[p[a+1]].length}

\* lines 60-66: an empty merge aborts the construction
SortTable ==
  /\ pc = "start"
  /\ IF Len(table) = 0
       THEN /\ pc' = "failed"
            /\ UNCHANGED <<X, X_lens>>
       ELSE /\ \E p \in SortOrders(table) :
                 /\ X' = [k \in 1..Len(table) |-> table[p[k]].file_path]
                 /\ X_lens' = [k \in 1..Len(table) |-> table[p[k]].length]
            /\ pc' = "transcripts"
  /\ UNCHANGED <<table, trans_found, trans_keys, bucket_size, usage_list,
                 selfY, selfX, batch_x, batch_len, i, x, item>>
  /\ UNCHANGED <<trans_vars, hid_vars>>

UsageMutant(xs, ys) == xs \cup ys
UsageList(xs, ys) == xs \cap ys

\* "/".join(x.split('/')[:-1])
DirOf(p) == LET parts == SplitOn(p, "/")
            IN Join(<<"/">>, SubSeq(parts, 1, Len(parts) - 1))

\* lines 130-131: f"{parts[-2]}-{parts[-1]}.trans.txt"
TransPath(dir) ==
  LET parts == SplitOn(dir, "/")
  IN parts[Len(parts) - 1] \o <<"-">> \o Last(parts)
       \o <<".", "t", "r", "a", "n", "s", ".", "t", "x", "t">>

\* lines 69-85 and 115-140: a chapter directory without its transcript file
\* aborts the construction
LoadTranscript ==
  /\ pc = "transcripts"
  /\ LET dirs == {DirOf(X[k]) : k \in 1..Len(X)}
         files == {d \o <<"/">> \o TransPath(d) : d \in dirs}
     IN IF files # {} /\ ~trans_found
          THEN /\ pc' = "failed"
               /\ UNCHANGED <<usage_list, selfY, selfX, batch_x, batch_len, i>>
          ELSE LET x_names == {_parse_x_name(X[k]) : k \in 1..Len(X)}
                   y_names == trans_keys
               IN /\ usage_list' = UsageList(x_names, y_names)
                  /\ selfY' = {k \in y_names : k \in usage_list'}
                  /\ selfX' = <<>> /\ batch_x' = <<>> /\ batch_len' = <<>>
                  /\ i' = 1
                  /\ pc' = "loop"
  /\ UNCHANGED <<table, trans_found, trans_keys, bucket_size, X, X_lens, x,
                 item>>
  /\ UNCHANGED <<trans_vars, hid_vars>>

FullMutant(b, size) == Len(b) >= size - 1
BatchFull(b, size) == Len(b) = size

HalfGeMutant(lens, size) == (size >= 2) /\ (MaxOf(lens) >= HALF_BATCHSIZE_TIME)
HalfOneMutant(lens, size) == (size >= 1) /\ (MaxOf(lens) > HALF_BATCHSIZE_TIME)
HalfBatch(lens, size) == (size >= 2) /\ (MaxOf(lens) > HALF_BATCHSIZE_TIME)

\* lines 87-100: one iteration of the scan
LoopStep ==
  /\ pc = "loop"
  /\ i <= Len(X)
  /\ x' = X[i]
  /\ i' = i + 1
  /\ IF _parse_x_name(X[i]) \in usage_list
       THEN LET bx == Append(batch_x, X[i])
                bl == Append(batch_len, X_lens[i])
                half == bucket_size \div 2
            IN IF BatchFull(bx, bucket_size)
                 THEN /\ selfX' =
                           IF HalfBatch(bl, bucket_size)
                             THEN selfX \o <<SubSeq(bx, 1, half),
                                             SubSeq(bx, half + 1, Len(bx))>>
                             ELSE Append(selfX, bx)
                      /\ batch_x' = <<>>
                      /\ batch_len' = <<>>
                 ELSE /\ batch_x' = bx
                      /\ batch_len' = bl
                      /\ UNCHANGED selfX
       ELSE UNCHANGED <<selfX, batch_x, batch_len>>
  /\ UNCHANGED <<pc, table, trans_found, trans_keys, bucket_size, X, X_lens,
                 usage_list, selfY, item>>
  /\ UNCHANGED <<trans_vars, hid_vars>>

\* lines 102-105: gather the last batch
Gather ==
  /\ pc = "loop"
  /\ i > Len(X)
  /\ selfX' = IF Len(batch_x) > 1 /\ _parse_x_name(x) \in usage_list
                THEN Append(selfX, batch_x)
                ELSE selfX
  /\ pc' = "done"
  /\ UNCHANGED <<table, trans_found, trans_keys, bucket_size, X, X_lens,
                 usage_list, selfY, batch_x, batch_len, i, x, item>>
  /\ UNCHANGED <<trans_vars, hid_vars>>

\* lines 110-113 and 155-159: the waveforms are loaded first, then the labels
GetItem ==
  /\ pc = "done"
  /\ \E index \in 1..Len(selfX), wav \in {"ok", "RuntimeError", "AssertionError"} :
       item' = IF wav # "ok" THEN wav
               ELSE IF \E k \in 1..Len(selfX[index]) :
                         _parse_x_name(selfX[index][k]) \notin selfY
                      THEN "KeyError"
                      ELSE "ok"
  /\ UNCHANGED <<pc, table, trans_found, trans_keys, bucket_size, X, X_lens,
                 usage_list, selfY, selfX, batch_x, batch_len, i, x>>
  /\ UNCHANGED <<trans_vars, hid_vars>>

(***************************************************************************)
(* Transcript normalisation                                                *)
(***************************************************************************)
MaxText == 3

Lower == <<"a", "b", "c", "d", "e", "f", "g", "h", "i", "j", "k", "l", "m",
           "n", "o", "p", "q", "r", "s", "t", "u", "v", "w", "x", "y", "z">>
Capital == <<"A", "B", "C", "D", "E", "F", "G", "H", "I", "J", "K", "L", "M",
             "N", "O", "P", "Q", "R", "S", "T", "U", "V", "W", "X", "Y", "Z">>

\* str.upper() of one character: the full Unicode mapping, under which the
\* sharp s becomes two characters
UpperChar(c) ==
  IF \E k \in 1..26 : Lower[k] = c
    THEN <<Capital[CHOOSE k \in 1..26 : Lower[k] = c]>>
    ELSE IF c = "ß" THEN <<"S", "S">> ELSE <<c>>

\* str.upper()
Upper(s) == Concat([k \in 1..Len(s) |-> UpperChar(s[k])])

\* lines 117-120
SeqTransMutant(t) == Join(<<" ">>, ListChars(Replace(Upper(t), " ", "|")))
SeqProcessTrans(t) ==
  Join(<<" ">>, ListChars(Replace(Upper(t), " ", "|"))) \o <<" ", "|">>

\* lines 173-175
HiddenProcessTrans(t) ==
  Join(<<" ">>, ListChars(Join(<<"|">>, SplitWS(Upper(t))))) \o <<" ", "|">>

TextChars == {"a", "B", "ß", " "}
TheCatSat == <<"t", "h", "e", " ", "c", "a", "t", " ", "s", "a", "t">>
Transcripts ==
  {TheCatSat} \cup UNION {[1..n -> TextChars] : n \in 0..MaxText}

InitTrans ==
  /\ transcript \in Transcripts
  /\ seq_out = None /\ hid_out = None

\* SequenceDataset._load_transcript normalises one transcript
SeqNormalise ==
  /\ transcript # None /\ seq_out = None
  /\ seq_out' = SeqProcessTrans(transcript)
  /\ UNCHANGED <<transcript, hid_out, seq_vars, hid_vars>>

\* HiddenDataset.__init__ normalises one transcript
HiddenNormalise ==
  /\ transcript # None /\ hid_out = None
  /\ hid_out' = HiddenProcessTrans(transcript)
  /\ UNCHANGED <<transcript, seq_out, seq_vars, hid_vars>>

(***************************************************************************)
(* Token dictionary                                                        *)
(***************************************************************************)
Reserved == << <<"<", "s", ">">>, <<"<", "p", "a", "d", ">">>,
               <<"<", "/", "s", ">">>, <<"<", "u", "n", "k", ">">> >>
UnkWord == Reserved[4]
EosWord == Reserved[3]

\* Dictionary.index: 0-based position of the symbol, the unknown index if absent
RECURSIVE Position(_, _)
Position(syms, w) ==
  IF syms = <<>> THEN 0
  ELSE IF syms[1] = w THEN 1
  ELSE LET r == Position(Tail(syms), w) IN IF r = 0 THEN 0 ELSE r + 1
unk_index(syms) == Position(syms, UnkWord) - 1
eos_index(syms) == Position(syms, EosWord) - 1
Index(syms, w) ==
  IF Position(syms, w) = 0 THEN unk_index(syms) ELSE Position(syms, w) - 1

\* Dictionary.encode_line over the tokens of a line: the ids and the symbol
\* list afterwards
RECURSIVE EncodeWords(_, _, _)
EncodeWords(syms, words, add_if_not_exist) ==
  IF words = <<>> THEN [ids |-> <<>>, syms |-> syms]
  ELSE LET w == words[1]
           s1 == IF add_if_not_exist /\ Position(syms, w) = 0
                   THEN Append(syms, w) ELSE syms
           rest == EncodeWords(s1, Tail(words), add_if_not_exist)
       IN [ids |-> <<Index(s1, w)>> \o rest.ids, syms |-> rest.syms]
encode_line(syms, line, add_if_not_exist, eos) ==
  LET r == EncodeWords(syms, SplitWS(line), add_if_not_exist)
  IN [ids |-> IF eos THEN Append(r.ids, eos_index(syms)) ELSE r.ids,
      syms |-> r.syms]

(***************************************************************************)
(* HiddenDataset                                                           *)
(***************************************************************************)
MaxRows == 2
HIDDEN_RATE == 44100

HiddenRoots == {<<"r">>, <<"r", ".", "1">>}
HiddenTexts == {<<"a">>, <<"B", " ", "a">>, <<"ß", " ", " ", "B">>}
Vocabulary == << <<"A">>, <<"B">>, <<"|">> >>
Dictionaries ==
  {Reserved \o SelectSeq(Vocabulary, LAMBDA w : w \in keep) :
     keep \in SUBSET {Vocabulary[k] : k \in 1..Len(Vocabulary)}}
Digits == <<"1", "2", "3", "4">>

\* os.path.join(hidden_root, f"{idx}.wav")
WavPath(root, idx) == root \o <<"/">> \o idx \o <<".", "w", "a", "v">>

\* line 197: drop the ids equal to the unknown index
KeepMutant(ids, unk) == ids
FilterUnk(ids, unk) == SelectSeq(ids, LAMBDA id : id # unk)

\* lines 190-201: one entry of Y_encoded and the dictionary afterwards
HiddenEncode(syms, y, eos) ==
  LET e == encode_line(syms, y, FALSE, eos)
  IN [ids |-> FilterUnk(e.ids, unk_index(e.syms)), syms |-> e.syms]

RECURSIVE HiddenEncodeAll(_, _, _)
HiddenEncodeAll(syms, ys, eos) ==
  IF ys = <<>> THEN [enc |-> <<>>, syms |-> syms]
  ELSE LET one == HiddenEncode(syms, ys[1], eos)
           rest == HiddenEncodeAll(one.syms, Tail(ys), eos)
       IN [enc |-> <<one.ids>> \o rest.enc, syms |-> rest.syms]

InitHidden ==
  /\ h_pc = "start"
  /\ hidden_root \in HiddenRoots
  /\ manifest \in UNION {[1..n -> HiddenTexts] : n \in 0..MaxRows}
  /\ snapshot \in Dictionaries \cup {None}
  /\ append_eos \in BOOLEAN
  /\ symbols = <<>>
  /\ hX = <<>> /\ hY = <<>> /\ Y_encoded = <<>>
  /\ h_index = 0 /\ loads = <<>> /\ h_result = NoResult

\* lines 166-201
HiddenInit ==
  /\ h_pc = "start"
  /\ hX' = [k \in 1..Len(manifest) |-> WavPath(hidden_root, <<Digits[k]>>)]
  /\ hY' = [k \in 1..Len(manifest) |-> HiddenProcessTrans(manifest[k])]
  /\ IF snapshot = None
       THEN /\ h_pc' = "failed"
            /\ UNCHANGED <<symbols, Y_encoded>>
       ELSE LET r == HiddenEncodeAll(snapshot, hY', append_eos)
            IN /\ symbols' = r.syms
               /\ Y_encoded' = r.enc
               /\ h_pc' = "ready"
  /\ UNCHANGED <<hidden_root, manifest, snapshot, append_eos, h_index, loads,
                 h_result>>
  /\ UNCHANGED <<seq_vars, trans_vars>>

\* what torchaudio.load can do with a file: return it with a sample rate,
\* raise RuntimeError, or raise another exception
LoadOutcomes ==
  {[err |-> "none", sr |-> r] : r \in {HIDDEN_RATE, SAMPLE_RATE}} \cup
  {[err |-> e, sr |-> 0] : e \in {"RuntimeError", "OSError"}}
Loaded(out) == out.err = "none"
RateOk(out) == Loaded(out) /\ out.sr = HIDDEN_RATE

\* lines 208-211
SegmentFile(wav_path, n) ==
  LET parts == SplitOn(wav_path, ".")
      prefix == Concat(SubSeq(parts, 1, Len(parts) - 1))
      extention == Last(parts)
  IN prefix \o <<"_", "(", n, ")", ".">> \o extention

\* line 207: the exceptions of the try block that the handler takes
CaughtMutant(out) == ~RateOk(out)
Caught(out) == out.err = "RuntimeError"

\* the access ends: an exception leaves it, or lines 217-219 and 226-227
\* return the waveform and the label
Raise(e) == [status |-> e, wav |-> <<>>, label |-> <<>>]
Return(files) ==
  [status |-> "ok", wav |-> files, label |-> Y_encoded[h_index]]

\* lines 224-225: __getitem__ calls _load_wav
HiddenGetItem ==
  /\ h_pc = "ready"
  /\ \E index \in 1..Len(hX) : h_index' = index
  /\ loads' = <<>>
  /\ h_result' = NoResult
  /\ h_pc' = "primary"
  /\ UNCHANGED <<hidden_root, manifest, snapshot, symbols, append_eos, hX, hY,
                 Y_encoded>>
  /\ UNCHANGED <<seq_vars, trans_vars>>

\* lines 204-207
LoadPrimary ==
  /\ h_pc = "primary"
  /\ \E out \in LoadOutcomes :
       /\ loads' = <<[file |-> hX[h_index], out |-> out]>>
       /\ IF RateOk(out)
            THEN h_pc' = "ready" /\ h_result' = Return(<<hX[h_index]>>)
            ELSE IF Caught(out)
              THEN h_pc' = "segment1" /\ UNCHANGED h_result
              ELSE /\ h_pc' = "ready"
                   /\ h_result' = Raise(IF Loaded(out) THEN "AssertionError"
                                        ELSE out.err)
  /\ UNCHANGED <<hidden_root, manifest, snapshot, symbols, append_eos, hX, hY,
                 Y_encoded, h_index>>
  /\ UNCHANGED <<seq_vars, trans_vars>>

\* lines 208-212
LoadSegment1 ==
  /\ h_pc = "segment1"
  /\ \E out \in LoadOutcomes :
       /\ loads' = Append(loads, [file |-> SegmentFile(hX[h_index], "1"),
                                  out |-> out])
       /\ IF Loaded(out)
            THEN h_pc' = "segment2" /\ UNCHANGED h_result
            ELSE h_pc' = "ready" /\ h_result' = Raise(out.err)
  /\ UNCHANGED <<hidden_root, manifest, snapshot, symbols, append_eos, hX, hY,
                 Y_encoded, h_index>>
  /\ UNCHANGED <<seq_vars, trans_vars>>

\* lines 213-219
LoadSegment2 ==
  /\ h_pc = "segment2"
  /\ \E out \in LoadOutcomes :
       /\ loads' = Append(loads, [file |-> SegmentFile(hX[h_index], "2"),
                                  out |-> out])
       /\ h_result' =
            IF ~Loaded(out) THEN Raise(out.err)
            ELSE IF ~RateOk(loads[2].out) \/ ~RateOk(out)
              THEN Raise("AssertionError")
              ELSE Return(<<loads'[2].file, loads'[3].file>>)
  /\ h_pc' = "ready"
  /\ UNCHANGED <<hidden_root, manifest, snapshot, symbols, append_eos, hX, hY,
                 Y_encoded, h_index>>
  /\ UNCHANGED <<seq_vars, trans_vars>>

(***************************************************************************)
(* Specifications                                                          *)
(***************************************************************************)
Init == InitSeq /\ IdleTrans /\ IdleHidden
Next == SortTable \/ LoadTranscript \/ LoopStep \/ Gather \/ GetItem
Spec == Init /\ [][Next]_vars

NextTrans == SeqNormalise \/ HiddenNormalise
InitT == IdleSeq /\ InitTrans /\ IdleHidden
SpecTrans == InitT /\ [][NextTrans]_vars

NextHidden ==
  HiddenInit \/ HiddenGetItem \/ LoadPrimary \/ LoadSegment1 \/ LoadSegment2
InitH == IdleSeq /\ IdleTrans /\ InitHidden
SpecHidden == InitH /\ [][NextHidden]_vars

(***************************************************************************)
(* Vocabulary of the SequenceDataset claims, stated on the inputs          *)
(***************************************************************************)
\* the row's derived key has a transcript (it is in the audio index already)
KeyOf == [p \in {Paths[k] : k \in 1..Len(Paths)} |-> _parse_x_name(p)]
Usable(p) == KeyOf[p] \in trans_keys
UsableRows == {k \in 1..Len(table) : Usable(table[k].file_path)}
NUsable == Cardinality(UsableRows)
CeilDiv(a, b) == (a + b - 1) \div b
Built == pc \in {"loop", "done"}
Flat == Concat(selfX)
LenOf(p) == table[CHOOSE k \in 1..Len(table) : table[k].file_path = p].length
\* the usable rows of the sorted table, in order, paths and lengths
UsableSorted == SelectSeq(X, Usable)
\* the full batches the scan forms: the k-th holds usable entries (k-1)B+1..kB
FullBatches == 1..(NUsable \div bucket_size)
BatchOf(k) == SubSeq(UsableSorted, (k-1) * bucket_size + 1, k * bucket_size)
LongBatch(k) ==
  \E m \in 1..bucket_size : LenOf(BatchOf(k)[m]) > HALF_BATCHSIZE_TIME
SplitBatches == {k \in FullBatches : LongBatch(k)}
Occurrences(s, e) == Cardinality({k \in 1..Len(s) : s[k] = e})

\* C1 as stated: with B >= 2 the number of buckets is at most ceil(N'/B).
C1_Original ==
  (pc = "done" /\ bucket_size >= 2) =>
     Len(selfX) <= CeilDiv(NUsable, bucket_size)

\* C1 amended: with B >= 2 the number of buckets is at most ceil(N'/B) plus
\* the number of full batches whose maximum duration exceeds 2000 (each of
\* those is emitted as two buckets).
C1_BucketCount ==
  (pc = "done" /\ bucket_size >= 2) =>
     Len(selfX) <= CeilDiv(NUsable, bucket_size) + Cardinality(SplitBatches)

C1_Witness ==
  /\ pc = "done" /\ bucket_size >= 2
  /\ SplitBatches # {}
  /\ NUsable < Len(table)
  /\ Len(selfX) = CeilDiv(NUsable, bucket_size) + Cardinality(SplitBatches)

\* C2: a scan step that brings the running batch to B entries emits two
\* buckets of sizes ceil(B/2) and floor(B/2) exactly when B >= 2 and some
\* duration in the batch is > 2000, and otherwise (a maximum of exactly 2000,
\* or B = 1) emits the batch as one bucket of size B; the table
\* {a:500, b:2500, c:100, d:50} with B = 2 gives [b], [a], [c, d].
C2_FillStep ==
  /\ pc = "loop" /\ i <= Len(X)
  /\ Usable(X[i])
  /\ Len(batch_x) + 1 = bucket_size
C2_Emitted ==
  LET full == Append(batch_x, X[i])
      lens == Append(batch_len, X_lens[i])
      long == \E k \in 1..Len(lens) : lens[k] > HALF_BATCHSIZE_TIME
      n == Len(selfX)
  IN
  IF bucket_size >= 2 /\ long
    THEN /\ Len(selfX') = n + 2
         /\ SubSeq(selfX', 1, n) = selfX
         /\ selfX'[n+1] \o selfX'[n+2] = full
         /\ {Len(selfX'[n+1]), Len(selfX'[n+2])} =
               {CeilDiv(bucket_size, 2), bucket_size \div 2}
    ELSE /\ selfX' = Append(selfX, full)
         /\ Len(full) = bucket_size
C2_ExampleHolds ==
  (/\ pc = "done" /\ table = ExampleTable /\ bucket_size = 2
   /\ \A k \in 1..4 : Usable(Paths[k]))
  => selfX = << <<Paths[2]>>, <<Paths[1]>>, <<Paths[3], Paths[4]>> >>
C2_Bucketing ==
  /\ [][C2_FillStep => C2_Emitted]_vars
  /\ []C2_ExampleHolds

C2_Witness ==
  /\ pc = "done" /\ table = ExampleTable /\ bucket_size = 2
  /\ selfX = << <<Paths[2]>>, <<Paths[1]>>, <<Paths[3], Paths[4]>> >>

\* C3: an entry whose key has no transcript is in no bucket, every bucket
\* member's key is in self.Y so the label lookup of __getitem__ never misses,
\* and four entries of which one lacks a transcript give a usable set of 3.
C3_OnlyUsableBucketed ==
  /\ \A b \in 1..Len(selfX) : \A k \in 1..Len(selfX[b]) :
        /\ Usable(selfX[b][k])
        /\ KeyOf[selfX[b][k]] \in selfY
  /\ \A k \in 1..Len(batch_x) : Usable(batch_x[k])
  /\ item # "KeyError"
  /\ (Built /\ Len(table) = 4 /\ Cardinality(UsableRows) = 3)
        => Cardinality(usage_list) = 3

C3_Witness ==
  /\ pc = "done" /\ Len(table) = 4 /\ Cardinality(UsableRows) = 3
  /\ Cardinality(usage_list) = 3
  /\ Len(selfX) >= 1
  /\ item = "ok"

\* C4: after the scan a leftover batch of two or more entries is appended as
\* the last bucket and a leftover of one is dropped, so the buckets hold every
\* usable entry exactly once except for at most one entry.
C4_Original ==
  pc = "done" =>
    /\ Len(batch_x) >= 2 => (selfX # <<>> /\ Last(selfX) = batch_x)
    /\ Len(batch_x) = 1 => Occurrences(Flat, batch_x[1]) = 0
    /\ \A k \in 1..Len(Flat) : Occurrences(Flat, Flat[k]) = 1
    /\ Cardinality({k \in UsableRows :
                      Occurrences(Flat, table[k].file_path) = 0}) <= 1

\* C5: construction fails when no entry is usable, and never completes with
\* an empty bucket list.
C5_Original ==
  pc = "done" => (NUsable > 0 /\ selfX # <<>>)

\* C9: the buckets concatenated are a prefix of the descending-sorted table
\* restricted to usable entries, without repetition, so a member of an
\* earlier bucket is at least as long as a member of a later one.
C9_SortedPrefix ==
  Built =>
    LET flat == Flat
        sorted == UsableSorted
        \* the durations of the members, bucket by bucket
        dur == [b \in 1..Len(selfX) |->
                  [m \in 1..Len(selfX[b]) |-> LenOf(selfX[b][m])]]
    IN /\ Len(X) = Len(table)
       /\ \A k \in 1..Len(table) : Occurrences(X, table[k].file_path) = 1
       /\ \A k \in 1..Len(X) : X_lens[k] = LenOf(X[k])
       /\ \A k \in 1..(Len(X) - 1) : X_lens[k] >= X_lens[k+1]
       /\ Len(flat) <= Len(sorted)
       /\ flat = SubSeq(sorted, 1, Len(flat))
       /\ \A k \in 1..Len(flat) : Occurrences(flat, flat[k]) = 1
       /\ \A a, b \in 1..Len(selfX) : a < b =>
             \A m \in 1..Len(dur[a]), n \in 1..Len(dur[b]) :
                dur[a][m] >= dur[b][n]

C9_Witness ==
  /\ pc = "done"
  /\ Len(selfX) >= 2
  /\ LenOf(selfX[1][1]) > LenOf(Last(Last(selfX)))
  /\ \E k \in 1..(Len(X) - 1) : ~Usable(X[k]) /\ Usable(X[k+1])
  /\ table[1].length < table[Len(table)].length

\* C10: for B >= 1 every bucket has between 1 and B members, and with B = 1
\* every usable entry is its own singleton bucket.
C10_BucketSizes ==
  /\ \A b \in 1..Len(selfX) :
        Len(selfX[b]) >= 1 /\ Len(selfX[b]) <= bucket_size
  /\ (pc = "done" /\ bucket_size = 1) =>
        selfX = [k \in 1..Len(UsableSorted) |-> <<UsableSorted[k]>>]

C10_Witness ==
  /\ pc = "done" /\ bucket_size = 1
  /\ Len(selfX) >= 2
  /\ LenOf(selfX[1][1]) > HALF_BATCHSIZE_TIME

(***************************************************************************)
(* Vocabulary of the HiddenDataset claims                                  *)
(***************************************************************************)
AccessDone == h_pc = "ready" /\ h_result # NoResult
PrimaryOut == loads[1].out
RecoveryTried == Len(loads) >= 2

Encoding(k) == encode_line(snapshot, hY[k], FALSE, append_eos).ids
\* the positions of an encoding that do not hold the unknown index
KeptPos(enc) == {j \in 1..Len(enc) : enc[j] # unk_index(snapshot)}
\* the m-th of them
NthKept(kept, m) ==
  CHOOSE j \in kept : Cardinality({n \in kept : n <= j}) = m
C7_UnknownDropped ==
  h_pc \notin {"start", "failed", "idle"} =>
    /\ symbols = snapshot
    /\ Len(Y_encoded) = Len(manifest)
    /\ \A k \in 1..Len(manifest) :
          LET enc == Encoding(k)
              kept == KeptPos(enc)
          IN /\ hY[k] = HiddenProcessTrans(manifest[k])
             /\ Len(Y_encoded[k]) = Cardinality(kept)
             /\ \A m \in 1..Len(Y_encoded[k]) :
                   /\ Y_encoded[k][m] = enc[NthKept(kept, m)]
                   /\ Y_encoded[k][m] # unk_index(symbols)

C7_Witness ==
  /\ h_pc = "ready"
  /\ \E k \in 1..Len(manifest) :
        LET kept == KeptPos(Encoding(k))
        IN /\ Len(Y_encoded[k]) >= 2
           /\ Len(Y_encoded[k]) < Len(Encoding(k))
           /\ \E j \in kept : j > 1 /\ (j - 1) \notin kept

(***************************************************************************)
(* Vocabulary of the normalisation claim                                   *)
(***************************************************************************)
Words(t) == SplitOn(t, " ")
\* n >= 1 words separated by single spaces
SingleSpaced(t) ==
  /\ t # None
  /\ \A k \in 1..Len(Words(t)) : Words(t)[k] # <<>>
  /\ \A k \in 1..Len(t) : t[k] # "\t"
Normalised == seq_out # None /\ hid_out # None
NChars(t) == Len(t) - (Len(Words(t)) - 1)
BoundaryToken == <<"|">>
\* one token per character of the transcript: its uppercase, or the boundary
TokenPerChar(t) ==
  [k \in 1..Len(t) |-> IF t[k] = " " THEN BoundaryToken ELSE UpperChar(t[k])]
    \o <<BoundaryToken>>
\* one token per character of the uppercased transcript
RECURSIVE TokenPerUpperChar(_)
TokenPerUpperChar(t) ==
  IF t = <<>> THEN <<BoundaryToken>>
  ELSE (IF t[1] = " " THEN <<BoundaryToken>>
        ELSE [k \in 1..Len(UpperChar(t[1])) |-> <<UpperChar(t[1])[k]>>])
       \o TokenPerUpperChar(Tail(t))
RECURSIVE UpperLen(_)
UpperLen(ws) ==
  IF ws = <<>> THEN 0 ELSE Len(Upper(ws[1])) + UpperLen(Tail(ws))
TheCatSatOut ==
  <<"T", " ", "H", " ", "E", " ", "|", " ", "C", " ", "A", " ", "T", " ",
    "|", " ", "S", " ", "A", " ", "T", " ", "|">>

\* C8 as stated: each character of each word, uppercased, is one token, with
\* one '|' between words and one at the end, so there are (characters of all
\* words) + n tokens; 'the cat sat' gives 'T H E | C A T | S A T |'; the two
\* normalisers agree.
C8_Original ==
  (SingleSpaced(transcript) /\ Normalised) =>
    /\ SplitWS(seq_out) = TokenPerChar(transcript)
    /\ Len(SplitWS(seq_out)) = NChars(transcript) + Len(Words(transcript))
    /\ transcript = TheCatSat => seq_out = TheCatSatOut
    /\ seq_out = hid_out

\* C8 amended: each character of each uppercased word is one token (a
\* character whose uppercase is several characters gives several tokens), with
\* one '|' between words and one at the end, so there are (characters of all
\* uppercased words) + n tokens; 'the cat sat' gives 'T H E | C A T | S A T |';
\* the two normalisers agree.
C8_Normalisation ==
  (SingleSpaced(transcript) /\ Normalised) =>
    /\ SplitWS(seq_out) = TokenPerUpperChar(transcript)
    /\ Len(SplitWS(seq_out)) =
          UpperLen(Words(transcript)) + Len(Words(transcript))
    /\ transcript = TheCatSat => seq_out = TheCatSatOut
    /\ seq_out = hid_out

C8_Witness ==
  /\ transcript = TheCatSat
  /\ seq_out = TheCatSatOut
  /\ hid_out = TheCatSatOut

====
